---- MODULE Spec2Model ----
(***************************************************************************)
(* A model of py-openmath: the conversion framework (openmath/convert.py)   *)
(* with the Converter class, its three registries, the registration        *)
(* methods, to_openmath, to_python and the rules of BasicPythonConverter;  *)
(* and the XML codec (openmath/encoder.py, decoder.py, xml.py).            *)
(*                                                                         *)
(* Python's None is the string "None"; a call either returns a value or    *)
(* raises an exception, and is modelled by a record Return(x) / Raise(e).  *)
(***************************************************************************)
EXTENDS Integers, Sequences, FiniteSets, TLC

VARIABLES
    conv_to_om,     \* Converter._conv_to_om : list of (py_class, converter)
    omclass_to_py,  \* Converter._omclass_to_py : dict OM class -> converter
    oms_to_py,      \* Converter._oms_to_py : dict (cdbase,cd,name) -> callable
    last,           \* the last call made on the converter and its outcome
    other,          \* the three registries of a second Converter instance
    heap            \* the node the caller built and the list it was built from

vars == <<conv_to_om, omclass_to_py, oms_to_py, last, other, heap>>

\* ------------------------------------------------------------------ bounds
\* the longest list of native-to-OM rules explored
MaxRules == 2
\* the largest number of distinct keys in _oms_to_py explored
MaxSymRules == 3
\* the largest number of distinct keys in _omclass_to_py explored
MaxClassRules == 1
\* the largest integer among the native values of the default converter
MaxInt == 2

\* ------------------------------------------------------- Python outcomes
None == "None"

Return(x) == [kind |-> "return", val |-> x]
Raise(e) == [kind |-> "raise", exc |-> e]

IsReturn(r) == r.kind = "return"
IsRaise(r, e) == r.kind = "raise" /\ r.exc = e

\* ----------------------------------------------------------- OM nodes
\* The classes of openmath.py, as records of the fields their constructors
\* set; the coercions of the constructors are made where they are called.
OMObject(omel, version, id, cdbase) ==
    [cls |-> "OMObject", omel |-> omel,
     version |-> IF version # None THEN version ELSE "2.0",
     id |-> id, cdbase |-> cdbase]
OMReference(href, id) == [cls |-> "OMReference", href |-> href, id |-> id]
OMInteger(integer, id) == [cls |-> "OMInteger", integer |-> integer, id |-> id]
OMFloat(double, id) == [cls |-> "OMFloat", double |-> double, id |-> id]
OMString(string, id) == [cls |-> "OMString", string |-> string, id |-> id]
OMBytes(bytes, id) == [cls |-> "OMBytes", bytes |-> bytes, id |-> id]
OMVariable(name, id) == [cls |-> "OMVariable", name |-> name, id |-> id]
OMSymbol(name, cd, id, cdbase) ==
    [cls |-> "OMSymbol", name |-> name, cd |-> cd, id |-> id, cdbase |-> cdbase]
OMForeign(obj, encoding, id, cdbase) ==
    [cls |-> "OMForeign", obj |-> obj, encoding |-> encoding,
     id |-> id, cdbase |-> cdbase]
OMApplication(elem, arguments, id, cdbase) ==
    [cls |-> "OMApplication", elem |-> elem, arguments |-> arguments,
     id |-> id, cdbase |-> cdbase]
OMAttribution(pairs, obj, id, cdbase) ==
    [cls |-> "OMAttribution", pairs |-> pairs, obj |-> obj,
     id |-> id, cdbase |-> cdbase]
\* pairs is a sequence of <<key, value>>
OMAttributionPairs(pairs, id, cdbase) ==
    [cls |-> "OMAttributionPairs", pairs |-> pairs, id |-> id, cdbase |-> cdbase]
OMBinding(binder, vars_, obj, id, cdbase) ==
    [cls |-> "OMBinding", binder |-> binder, vars |-> vars_, obj |-> obj,
     id |-> id, cdbase |-> cdbase]
OMAttVar(pairs, obj, id) ==
    [cls |-> "OMAttVar", pairs |-> pairs, obj |-> obj, id |-> id]
OMBindVariables(vars_, id) == [cls |-> "OMBindVariables", vars |-> vars_, id |-> id]
OMError(name, params, id, cdbase) ==
    [cls |-> "OMError", name |-> name, params |-> params,
     id |-> id, cdbase |-> cdbase]

\* ----------------------------------------------------- native values
\* A native value: its class, its value (an integer for an int, the printed
\* form for the others) and, for a container, its items.
PyValue(cls, repr, items) == [cls |-> cls, repr |-> repr, items |-> items]

PyInt(n) == PyValue("int", n, <<>>)
PyBool(b) == PyValue("bool", b, <<>>)
PyFloat(d) == PyValue("float", d, <<>>)
PyStr(s) == PyValue("str", s, <<>>)
PyBytes(b) == PyValue("bytes", b, <<>>)
\* complex(re, im): the items are the two floats
PyComplex(re, im) == PyValue("complex", "complex", <<re, im>>)
PyList(items) == PyValue("list", "list", items)
\* a set, with its items in iteration order
PySet(items) == PyValue("set", "set", items)
\* range(start, stop, step): the items are the three integers
PyRange(start, stop, step) == PyValue("range", "range", <<start, stop, step>>)

VInt == PyInt(1)
VBool == PyBool("True")
VStr == PyStr("world")
VDict == PyValue("dict", "{}", <<>>)
\* instances of classes that define __openmath__
VTest == PyValue("test", "test()", <<>>)
VTestSkip == PyValue("testskip", "testskip()", <<>>)
VTestErr == PyValue("testerr", "testerr()", <<>>)

Atoms == {VInt, VBool, VStr, VDict, VTest, VTestSkip, VTestErr}
Lists == {PyList(<<>>)} \cup {PyList(<<a>>) : a \in {VInt, VTestSkip}}
Values == Atoms \cup Lists

\* isinstance(obj, cl): bool is a subclass of int
IsInstance(obj, cl) ==
    \/ obj.cls = cl
    \/ obj.cls = "bool" /\ cl = "int"

\* inspect.isclass(py_class)
PyClasses == {"int", "bool", "list", "str", "bytes", "float", "complex",
              "set", "range", "dict"}
isclass(x) == x \in PyClasses

\* int(x): bool is an int; a float is truncated; other values have no int
int(x) ==
    CASE x.cls = "int" -> Return(x.repr)
      [] x.cls = "bool" -> Return(IF x.repr = "True" THEN 1 ELSE 0)
      [] x.cls = "float" /\ x.repr = "0.1" -> Return(0)
      [] x.cls = "float" /\ x.repr = "nan" -> Raise("ValueError")
      [] x.cls = "float" -> Raise("OverflowError")
      [] OTHER -> Raise("TypeError")

\* hasattr(obj, '__openmath__')
HasHook(obj) == obj.cls \in {"test", "testskip", "testerr"}

\* obj.__openmath__()
CallHook(obj) ==
    CASE obj.cls = "test" -> Return(OMInteger(1, None))
      [] obj.cls = "testskip" -> Raise("CannotConvertError")
      [] OTHER -> Raise("RuntimeError")

\* --------------------------------------------------- converters to OM
\* The converters a caller registers with register_to_openmath: functions
\* (named after the ones of the source), and a constant OpenMath node.
ConstNode == OMInteger(7, None)
FunctionConvs == {"to_om_int", "str_to_om", "skip", "raising", "do_list"}
OMClasses ==
    {"OMObject", "OMReference", "OMInteger", "OMFloat", "OMString", "OMBytes",
     "OMSymbol", "OMVariable", "OMForeign", "OMApplication", "OMAttribution",
     "OMAttributionPairs", "OMBinding", "OMAttVar", "OMBindVariables", "OMError"}
\* callable(converter): the functions are; OpenMath objects and numbers are not
callable(c) == "fn" \in DOMAIN c
\* isinstance(converter, om.OMAny)
IsOMAny(c) == "cls" \in DOMAIN c /\ c.cls \in OMClasses
\* neither a callable nor an OpenMath object: the number 5
NotAConverter == [int |-> "5"]
\* not a class: the string 'int'
NotAClass == "'int'"

Guards == {"int", "bool", "list"} \cup {None}
Convs == [fn : FunctionConvs] \cup {ConstNode}

ConvName(c) == IF callable(c) THEN c.fn ELSE "not callable"

RECURSIVE to_openmath(_, _)
RECURSIVE TryRules(_, _, _, _)
RECURSIVE MapToOpenmath(_, _, _)

\* list(map(self.to_openmath, l)): the first failing item raises
MapToOpenmath(rules, items, i) ==
    IF i > Len(items) THEN Return(<<>>)
    ELSE LET r == to_openmath(rules, items[i]).result
         IN  IF ~IsReturn(r) THEN r
             ELSE LET rest == MapToOpenmath(rules, items, i + 1)
                  IN  IF ~IsReturn(rest) THEN rest
                      ELSE Return(<<r.val>> \o rest.val)

\* BasicPythonConverter._omBase and oms(name, cd)
_omBase == "http://www.openmath.org/cd"
oms(name, cd) == OMSymbol(name, cd, None, _omBase)

\* om.OMApplication(head, map(self.to_openmath, items)): the constructor
\* runs the map, so the first failing item raises
ApplyTo(rules, head, items) ==
    LET args == MapToOpenmath(rules, items, 1)
    IN  IF IsReturn(args)
        THEN Return(OMApplication(head, args.val, None, None))
        ELSE args

\* str(b).lower() for a bool b
Lower(b) == IF b = "True" THEN "true" ELSE "false"

\* A do_range that gives the interval up to stop instead of stop - 1.
do_range_to_stop(r) ==
    IF r.items[3] # 1 THEN Raise("NameError")
    ELSE Return(OMApplication(oms("integer_interval", "interval1"),
                    <<OMInteger(r.items[1], None), OMInteger(r.items[2], None)>>,
                    None, None))
\* do_range(r): the message of the ValueError names obj, which is not
\* defined, so building it raises NameError
do_range(r) ==
    IF r.items[3] # 1 THEN Raise("NameError")
    ELSE Return(OMApplication(oms("integer_interval", "interval1"),
                    <<OMInteger(r.items[1], None), OMInteger(r.items[2] - 1, None)>>,
                    None, None))

\* conv(obj) for a registered converter conv
CallConv(rules, conv, obj) ==
    CASE ConvName(conv) = "to_om_int" ->
            LET n == int(obj)
            IN  IF IsReturn(n) THEN Return(OMInteger(n.val, None)) ELSE n
      [] ConvName(conv) = "str_to_om" ->
            IF obj.cls = "str" THEN Return(OMString("Hello" \o obj.repr, None))
            ELSE Raise("TypeError")
      [] ConvName(conv) = "skip" -> Raise("CannotConvertError")
      [] ConvName(conv) = "raising" -> Raise("RuntimeError")
      [] ConvName(conv) = "do_list" ->
            ApplyTo(rules, oms("list", "list1"), obj.items)
      [] ConvName(conv) = "to_om_str" -> Return(OMString(obj.repr, None))
      [] ConvName(conv) = "to_om_bytes" -> Return(OMBytes(obj.repr, None))
      [] ConvName(conv) = "to_om_bool" -> Return(oms(Lower(obj.repr), "logic1"))
      [] ConvName(conv) = "do_float" ->
            IF obj.repr = "inf" THEN Return(oms("infinity", "nums1"))
            ELSE Return(OMFloat(obj.repr, None))
      [] ConvName(conv) = "to_om_complex" ->
            ApplyTo(rules, oms("complex_cartesian", "complex1"),
                    <<PyFloat(obj.items[1]), PyFloat(obj.items[2])>>)
      [] ConvName(conv) = "do_set" ->
            IF obj.items # <<>>
            THEN ApplyTo(rules, oms("set", "set1"), obj.items)
            ELSE Return(oms("emptyset", "set1"))
      [] ConvName(conv) = "do_range" -> do_range(obj)
         \* an OpenMath object defines no __call__: calling it raises
      [] OTHER -> Raise("TypeError")

\* The loop of to_openmath from rule i down to the oldest; tried is the
\* list of the indexes of the rules invoked so far.
\* A loop that lets CannotConvertError out of the first matching rule.
TryRulesAbortOnSkip(rules, i, obj, tried) ==
    IF i = 0 THEN [found |-> FALSE, result |-> Raise("ValueError"), tried |-> tried]
    ELSE IF rules[i].cl = None \/ IsInstance(obj, rules[i].cl)
         THEN [found |-> TRUE, result |-> CallConv(rules, rules[i].conv, obj),
               tried |-> Append(tried, i)]
         ELSE TryRules(rules, i - 1, obj, tried)
\* A loop over self._conv_to_om without reversed().
TryRulesOldestFirst(rules, i, obj, tried) ==
    LET j == Len(rules) + 1 - i
    IN  IF i = 0 THEN [found |-> FALSE, result |-> Raise("ValueError"), tried |-> tried]
        ELSE IF rules[j].cl = None \/ IsInstance(obj, rules[j].cl)
             THEN LET r == CallConv(rules, rules[j].conv, obj)
                  IN  IF IsRaise(r, "CannotConvertError")
                      THEN TryRules(rules, i - 1, obj, Append(tried, j))
                      ELSE [found |-> TRUE, result |-> r, tried |-> Append(tried, j)]
             ELSE TryRules(rules, i - 1, obj, tried)
\* A loop whose except clause catches every exception.
TryRulesCatchAll(rules, i, obj, tried) ==
    IF i = 0 THEN [found |-> FALSE, result |-> Raise("ValueError"), tried |-> tried]
    ELSE IF rules[i].cl = None \/ IsInstance(obj, rules[i].cl)
         THEN LET r == CallConv(rules, rules[i].conv, obj)
              IN  IF ~IsReturn(r)
                  THEN TryRules(rules, i - 1, obj, Append(tried, i))
                  ELSE [found |-> TRUE, result |-> r, tried |-> Append(tried, i)]
         ELSE TryRules(rules, i - 1, obj, tried)
\* for cl, conv in reversed(self._conv_to_om): ... (convert.py 153-158)
TryRules(rules, i, obj, tried) ==
    IF i = 0 THEN [found |-> FALSE, result |-> Raise("ValueError"), tried |-> tried]
    ELSE IF rules[i].cl = None \/ IsInstance(obj, rules[i].cl)
         THEN LET r == CallConv(rules, rules[i].conv, obj)
              IN  IF IsRaise(r, "CannotConvertError")
                  THEN TryRules(rules, i - 1, obj, Append(tried, i))
                  ELSE [found |-> TRUE, result |-> r, tried |-> Append(tried, i)]
         ELSE TryRules(rules, i - 1, obj, tried)

\* A to_openmath that asks __openmath__ before the registered rules.
to_openmath_hook_first(rules, obj) ==
    IF HasHook(obj)
    THEN [result |-> CallHook(obj), tried |-> <<>>, hook |-> TRUE]
    ELSE LET t == TryRules(rules, Len(rules), obj, <<>>)
         IN  [result |-> t.result, tried |-> t.tried, hook |-> FALSE]
\* Converter.to_openmath(obj): the outcome, the rules invoked (newest
\* first, by index in _conv_to_om) and whether __openmath__ was called.
to_openmath(rules, obj) ==
    LET t == TryRules(rules, Len(rules), obj, <<>>)
    IN  IF t.found
        THEN [result |-> t.result, tried |-> t.tried, hook |-> FALSE]
        ELSE IF HasHook(obj)
             THEN [result |-> CallHook(obj), tried |-> t.tried, hook |-> TRUE]
             ELSE [result |-> Raise("ValueError"), tried |-> t.tried, hook |-> FALSE]

\* ------------------------------------------------- converters to Python
\* A Python dict: a function on the set of its keys.
EmptyDict == [k \in {} |-> None]
DictSet(d, key, v) == [k \in DOMAIN d \cup {key} |-> IF k = key THEN v ELSE d[k]]
\* d.get(key): None when the key is absent
DictGet(d, key) == IF key \in DOMAIN d THEN d[key] ELSE [none |-> None]
IsNone(r) == "none" \in DOMAIN r

\* The native value f(*args) of a function f the caller supplies.
PyApply(f, args) == [fn |-> f, args |-> args]

\* The functions a caller registers for symbols, with the number of
\* arguments each takes: lambda name, lambda cd,name, lambda cdbase,cd,name.
Arity(f) ==
    CASE f \in {"f1", "g1"} -> 1
      [] f = "f2" -> 2
      [] OTHER -> 3
CdHandlers == {"f1", "g1"}
CdbaseHandlers == {"f2", "f3"}
\* The Python objects registered for a symbol name: a string, and the
\* function lambda *args: list(args) of BasicPythonConverter.
PyObjects == {[obj |-> "world"], [obj |-> "mklist"]}
\* The converters registered for an OM class.
ClassConvs == {"c1", "c2"}

\* r(*args) for an entry r of _oms_to_py: lambda:py, or a caller's function
CallEntry(r, args) ==
    IF "py" \in DOMAIN r
    THEN IF Len(args) = 0 THEN Return(r.py) ELSE Raise("TypeError")
    ELSE IF Len(args) = Arity(r.fn) THEN Return(PyApply(r.fn, args))
         ELSE Raise("TypeError")

\* set(args): the distinct items of args, in order of first occurrence
RECURSIVE Dedupe(_)
Dedupe(args) ==
    IF args = <<>> THEN <<>>
    ELSE LET front == Dedupe(SubSeq(args, 1, Len(args) - 1))
             x == args[Len(args)]
         IN  IF \E k \in 1..Len(front) : front[k] = x THEN front
             ELSE Append(front, x)

\* x is a number: complex() and range() take nothing else
IsNumber(x) == "cls" \in DOMAIN x /\ x.cls \in {"int", "bool", "float"}
IsInteger(x) == "cls" \in DOMAIN x /\ x.cls \in {"int", "bool"}
\* float(x) for a number x, as the value of a PyFloat: a float as it is,
\* an integer n as the float of the same value, written <<"float", n>>
float(x) == IF x.cls = "float" THEN x.repr ELSE <<"float", int(x).val>>

\* elem(*arguments) for a native value elem: the functions registered by
\* BasicPythonConverter are callable, every other value is not
CallNative(elem, arguments) ==
    IF "obj" \notin DOMAIN elem THEN Raise("TypeError")
    ELSE CASE elem.obj = "mklist" -> Return(PyList(arguments))
           [] elem.obj = "mkset" -> Return(PySet(Dedupe(arguments)))
           [] elem.obj = "complex" ->
                IF Len(arguments) = 2 /\ IsNumber(arguments[1])
                                      /\ IsNumber(arguments[2])
                THEN Return(PyComplex(float(arguments[1]), float(arguments[2])))
                ELSE Raise("TypeError")
           [] elem.obj = "mkrange" ->
                IF Len(arguments) = 2 /\ IsInteger(arguments[1])
                                      /\ IsInteger(arguments[2])
                THEN Return(PyRange(int(arguments[1]).val,
                                    int(arguments[2]).val + 1, 1))
                ELSE Raise("TypeError")
           [] OTHER -> Raise("TypeError")

\* conv(omobj) for a class override conv: the attribute getters of
\* BasicPythonConverter, or a caller's function
CallClassConv(conv, omobj) ==
    CASE conv = "integer" -> Return(PyInt(omobj.integer))
      [] conv = "double" -> Return(PyFloat(omobj.double))
      [] conv = "string" -> Return(PyStr(omobj.string))
      [] conv = "bytes" -> Return(PyBytes(omobj.bytes))
      [] OTHER -> Return(PyApply(conv, <<omobj>>))

\* "no entry found for " + cdbase + "?" + cd + "?" + name: concatenating
\* None to a string raises TypeError before the ValueError is built
NoEntryFound(cdbase, cd, name) ==
    IF cdbase = None \/ cd = None \/ name = None
    THEN Raise("TypeError")
    ELSE Raise("ValueError")

\* Converter._lookup_to_python(cdbase, cd, name): the outcome and the
\* call made, as the key the entry was found under and the arguments.
Found(key, r, args) ==
    [result |-> CallEntry(r, args), calls |-> <<[key |-> key, args |-> args]>>]
\* A lookup that tries the (cdbase, cd) entry before the exact one.
_lookup_to_python_cd_first(symtab, cdbase, cd, name) ==
    LET r1 == DictGet(symtab, <<cdbase, cd, name>>)
        r2 == DictGet(symtab, <<cdbase, cd, None>>)
        r3 == DictGet(symtab, <<cdbase, None, None>>)
        r4 == DictGet(symtab, <<None, None, None>>)
    IN  IF ~IsNone(r2) THEN Found(<<cdbase, cd, None>>, r2, <<name>>)
        ELSE IF ~IsNone(r1) THEN Found(<<cdbase, cd, name>>, r1, <<>>)
        ELSE IF ~IsNone(r3) THEN Found(<<cdbase, None, None>>, r3, <<cd, name>>)
        ELSE IF ~IsNone(r4) THEN Found(<<None, None, None>>, r4, <<cdbase, cd, name>>)
        ELSE [result |-> NoEntryFound(cdbase, cd, name), calls |-> <<>>]
_lookup_to_python(symtab, cdbase, cd, name) ==
    LET r1 == DictGet(symtab, <<cdbase, cd, name>>)
        r2 == DictGet(symtab, <<cdbase, cd, None>>)
        r3 == DictGet(symtab, <<cdbase, None, None>>)
        r4 == DictGet(symtab, <<None, None, None>>)
    IN  IF ~IsNone(r1) THEN Found(<<cdbase, cd, name>>, r1, <<>>)
        ELSE IF ~IsNone(r2) THEN Found(<<cdbase, cd, None>>, r2, <<name>>)
        ELSE IF ~IsNone(r3) THEN Found(<<cdbase, None, None>>, r3, <<cd, name>>)
        ELSE IF ~IsNone(r4) THEN Found(<<None, None, None>>, r4, <<cdbase, cd, name>>)
        ELSE [result |-> NoEntryFound(cdbase, cd, name), calls |-> <<>>]

RECURSIVE to_python(_, _, _)
RECURSIVE MapToPython(_, _, _, _)

Reverse(seq) == [k \in 1..Len(seq) |-> seq[Len(seq) + 1 - k]]

\* [self.to_python(x) for x in omobj.arguments]
MapToPython(omclass, symtab, arguments, i) ==
    IF i > Len(arguments) THEN [result |-> Return(<<>>), calls |-> <<>>]
    ELSE LET r == to_python(omclass, symtab, arguments[i])
         IN  IF ~IsReturn(r.result) THEN r
             ELSE LET rest == MapToPython(omclass, symtab, arguments, i + 1)
                  IN  IF ~IsReturn(rest.result)
                      THEN [result |-> rest.result, calls |-> r.calls \o rest.calls]
                      ELSE [result |-> Return(<<r.result.val>> \o rest.result.val),
                            calls |-> r.calls \o rest.calls]

\* A to_python that resolves symbols before the class overrides.
to_python_symbol_first(omclass, symtab, omobj) ==
    IF omobj.cls = "OMSymbol"
    THEN _lookup_to_python(symtab, omobj.cdbase, omobj.cd, omobj.name)
    ELSE IF omobj.cls \in DOMAIN omclass
    THEN [result |-> CallClassConv(omclass[omobj.cls], omobj),
          calls |-> <<[cls |-> omobj.cls, args |-> <<omobj>>]>>]
    ELSE [result |-> Raise("ValueError"), calls |-> <<>>]
\* A to_python that hands the converted arguments over in reverse order.
to_python_reversed(omclass, symtab, omobj) ==
    IF omobj.cls \in DOMAIN omclass
    THEN [result |-> CallClassConv(omclass[omobj.cls], omobj),
          calls |-> <<[cls |-> omobj.cls, args |-> <<omobj>>]>>]
    ELSE IF omobj.cls = "OMSymbol"
    THEN _lookup_to_python(symtab, omobj.cdbase, omobj.cd, omobj.name)
    ELSE IF omobj.cls = "OMApplication"
    THEN LET elem == to_python(omclass, symtab, omobj.elem)
             arguments == MapToPython(omclass, symtab, omobj.arguments, 1)
         IN  IF ~IsReturn(elem.result) THEN elem
             ELSE IF ~IsReturn(arguments.result)
             THEN [result |-> arguments.result,
                   calls |-> elem.calls \o arguments.calls]
             ELSE [result |-> CallNative(elem.result.val,
                                         Reverse(arguments.result.val)),
                   calls |-> elem.calls \o arguments.calls]
    ELSE [result |-> Raise("ValueError"), calls |-> <<>>]
\* A to_python that converts an OMObject to what its child converts to.
to_python_unwrap(omclass, symtab, omobj) ==
    IF omobj.cls \in DOMAIN omclass
    THEN [result |-> CallClassConv(omclass[omobj.cls], omobj),
          calls |-> <<[cls |-> omobj.cls, args |-> <<omobj>>]>>]
    ELSE IF omobj.cls = "OMSymbol"
    THEN _lookup_to_python(symtab, omobj.cdbase, omobj.cd, omobj.name)
    ELSE IF omobj.cls = "OMApplication"
    THEN LET elem == to_python(omclass, symtab, omobj.elem)
             arguments == MapToPython(omclass, symtab, omobj.arguments, 1)
         IN  IF ~IsReturn(elem.result) THEN elem
             ELSE IF ~IsReturn(arguments.result)
             THEN [result |-> arguments.result,
                   calls |-> elem.calls \o arguments.calls]
             ELSE [result |-> CallNative(elem.result.val, arguments.result.val),
                   calls |-> elem.calls \o arguments.calls]
    ELSE IF omobj.cls = "OMObject"
    THEN to_python(omclass, symtab, omobj.omel)
    ELSE [result |-> Raise("ValueError"), calls |-> <<>>]
\* Converter.to_python(omobj)
to_python(omclass, symtab, omobj) ==
    IF omobj.cls \in DOMAIN omclass
    THEN [result |-> CallClassConv(omclass[omobj.cls], omobj),
          calls |-> <<[cls |-> omobj.cls, args |-> <<omobj>>]>>]
    ELSE IF omobj.cls = "OMSymbol"
    THEN _lookup_to_python(symtab, omobj.cdbase, omobj.cd, omobj.name)
    ELSE IF omobj.cls = "OMApplication"
    THEN LET elem == to_python(omclass, symtab, omobj.elem)
         IN  IF ~IsReturn(elem.result) THEN elem
             ELSE LET arguments == MapToPython(omclass, symtab, omobj.arguments, 1)
                  IN  IF ~IsReturn(arguments.result)
                      THEN [result |-> arguments.result,
                            calls |-> elem.calls \o arguments.calls]
                      ELSE [result |-> CallNative(elem.result.val, arguments.result.val),
                            calls |-> elem.calls \o arguments.calls]
    ELSE [result |-> Raise("ValueError"), calls |-> <<>>]

\* The symbols and nodes handed to to_python.
CdBases == {"b"}
Cds == {"c"}
Names == {"n"}
SymbolNames == {"n", "m"}
Symbols == {OMSymbol(name, cd, None, cdbase) :
               name \in SymbolNames, cd \in Cds, cdbase \in CdBases \cup {None}}
IntNode == OMInteger(1, None)
VarNode == OMVariable("x", None)
Applications ==
    {OMApplication(s, <<IntNode>>, None, None) : s \in Symbols} \cup
    {OMApplication(OMSymbol("n", "c", None, "b"),
                   <<OMSymbol("m", "c", None, "b"), IntNode>>, None, None),
     OMApplication(OMSymbol("n", "c", None, "b"),
                   <<IntNode, VarNode>>, None, None)}
\* nodes of classes without a conversion of their own
ObjNode == OMObject(OMSymbol("n", "c", None, "b"), None, None, None)
BindNode == OMBinding(OMSymbol("n", "c", None, "b"), OMBindVariables(<<VarNode>>, None),
                      VarNode, None, None)
ErrNode == OMError(OMSymbol("n", "c", None, "b"), <<IntNode>>, None, None)
Nodes == Symbols \cup {IntNode, VarNode, ObjNode, BindNode, ErrNode} \cup Applications

\* ------------------------------------------------------------- state
NoCall == [op |-> "init"]

\* Converter.__init__: the three registries of a new instance
NewConverter == [conv_to_om |-> <<>>, omclass_to_py |-> EmptyDict, oms_to_py |-> EmptyDict]
Init ==
    /\ conv_to_om = NewConverter.conv_to_om
    /\ omclass_to_py = NewConverter.omclass_to_py
    /\ oms_to_py = NewConverter.oms_to_py
    /\ last = NoCall
    /\ other = NewConverter
    /\ heap = [built |-> FALSE]

\* the call register_to_openmath(py_class, converter) and its outcome
Registered(py_class, converter, result) ==
    [op |-> "register_to_openmath", py_class |-> py_class,
     converter |-> converter, result |-> result]

\* A register_to_openmath that appends the rule before it validates it.
register_to_openmath_append_first(py_class, converter) ==
    /\ Len(conv_to_om) < MaxRules
    /\ conv_to_om' = Append(conv_to_om, [cl |-> py_class, conv |-> converter])
    /\ IF py_class # None /\ ~isclass(py_class)
       THEN last' = Registered(py_class, converter, Raise("TypeError"))
       ELSE IF ~callable(converter) /\ ~IsOMAny(converter)
       THEN last' = Registered(py_class, converter, Raise("TypeError"))
       ELSE last' = Registered(py_class, converter, Return(None))
    /\ UNCHANGED <<omclass_to_py, oms_to_py, other, heap>>
\* Converter.register_to_openmath(py_class, converter)
register_to_openmath(py_class, converter) ==
    /\ Len(conv_to_om) < MaxRules
    /\ IF py_class # None /\ ~isclass(py_class)
       THEN /\ last' = Registered(py_class, converter, Raise("TypeError"))
            /\ UNCHANGED conv_to_om
       ELSE IF ~callable(converter) /\ ~IsOMAny(converter)
       THEN /\ last' = Registered(py_class, converter, Raise("TypeError"))
            /\ UNCHANGED conv_to_om
       ELSE /\ conv_to_om' = Append(conv_to_om, [cl |-> py_class, conv |-> converter])
            /\ last' = Registered(py_class, converter, Return(None))
    /\ UNCHANGED <<omclass_to_py, oms_to_py, other, heap>>

RegisterToOpenmath ==
    \E py_class \in Guards \cup {NotAClass}, converter \in Convs \cup {NotAConverter} :
        register_to_openmath(py_class, converter)

\* A to_openmath that forgets the oldest rule.
ToOpenmathForgetting ==
    \E obj \in Values :
        /\ last' = [op |-> "to_openmath", obj |-> obj]
                       @@ to_openmath(conv_to_om, obj)
        /\ conv_to_om' = IF conv_to_om = <<>> THEN <<>> ELSE Tail(conv_to_om)
        /\ UNCHANGED <<omclass_to_py, oms_to_py, other, heap>>

\* a call c.to_openmath(obj)
ToOpenmath ==
    \E obj \in Values :
        /\ last' = [op |-> "to_openmath", obj |-> obj]
                       @@ to_openmath(conv_to_om, obj)
        /\ UNCHANGED <<conv_to_om, omclass_to_py, oms_to_py, other, heap>>

\* Converter.register_to_python_class(cls, conv)
\* A registration into a dict that all Converter instances share.
register_to_python_class_shared(cls, conv) ==
    /\ cls \in DOMAIN omclass_to_py \/ Cardinality(DOMAIN omclass_to_py) < MaxClassRules
    /\ omclass_to_py' = DictSet(omclass_to_py, cls, conv)
    /\ other' = [other EXCEPT !.omclass_to_py = DictSet(omclass_to_py, cls, conv)]
    /\ last' = [op |-> "register_to_python_class", key |-> cls, handler |-> conv,
                replaced |-> DictGet(omclass_to_py, cls), result |-> Return(None)]
    /\ UNCHANGED <<conv_to_om, oms_to_py, heap>>

\* Converter.register_to_python_class(cls, conv)
register_to_python_class(cls, conv) ==
    /\ cls \in DOMAIN omclass_to_py \/ Cardinality(DOMAIN omclass_to_py) < MaxClassRules
    /\ omclass_to_py' = DictSet(omclass_to_py, cls, conv)
    /\ last' = [op |-> "register_to_python_class", key |-> cls, handler |-> conv,
                replaced |-> DictGet(omclass_to_py, cls), result |-> Return(None)]
    /\ UNCHANGED <<conv_to_om, oms_to_py, other, heap>>

\* A registration that keeps the entry a key already holds.
_register_to_python_keep_first(base, cd, name, py) ==
    /\ <<base, cd, name>> \in DOMAIN oms_to_py
          \/ Cardinality(DOMAIN oms_to_py) < MaxSymRules
    /\ oms_to_py' = IF <<base, cd, name>> \in DOMAIN oms_to_py THEN oms_to_py
                    ELSE DictSet(oms_to_py, <<base, cd, name>>, py)
    /\ UNCHANGED <<conv_to_om, omclass_to_py, other, heap>>

\* Converter._register_to_python(base, cd, name, py)
_register_to_python(base, cd, name, py) ==
    /\ <<base, cd, name>> \in DOMAIN oms_to_py
          \/ Cardinality(DOMAIN oms_to_py) < MaxSymRules
    /\ oms_to_py' = DictSet(oms_to_py, <<base, cd, name>>, py)
    /\ UNCHANGED <<conv_to_om, omclass_to_py, other, heap>>

\* the call register_to_python_...(...) that stored handler under key, and
\* the entry the key held before
RegisteredToPython(op, key, handler) ==
    [op |-> op, key |-> key, handler |-> handler,
     replaced |-> DictGet(oms_to_py, key), result |-> Return(None)]

\* Converter.register_to_python_name(base, cd, name, py): stores lambda:py
register_to_python_name(base, cd, name, py) ==
    /\ _register_to_python(base, cd, name, [py |-> py])
    /\ last' = RegisteredToPython("register_to_python_name", <<base, cd, name>>, [py |-> py])

\* Converter.register_to_python_cd(base, cd, py)
register_to_python_cd(base, cd, py) ==
    /\ _register_to_python(base, cd, None, [fn |-> py])
    /\ last' = RegisteredToPython("register_to_python_cd", <<base, cd, None>>, [fn |-> py])

\* Converter.register_to_python_cdbase(base, py)
register_to_python_cdbase(base, py) ==
    /\ _register_to_python(base, None, None, [fn |-> py])
    /\ last' = RegisteredToPython("register_to_python_cdbase", <<base, None, None>>, [fn |-> py])

RegisterToPythonClass ==
    \E cls \in {"OMSymbol", "OMInteger", "OMApplication"}, conv \in ClassConvs :
        register_to_python_class(cls, conv)

RegisterToPythonName ==
    \E base \in CdBases \cup {None}, cd \in Cds, name \in Names, py \in PyObjects :
        register_to_python_name(base, cd, name, py)

RegisterToPythonCd ==
    \E base \in CdBases \cup {None}, cd \in Cds, py \in CdHandlers :
        register_to_python_cd(base, cd, py)

RegisterToPythonCdbase ==
    \E base \in CdBases \cup {None}, py \in CdbaseHandlers :
        register_to_python_cdbase(base, py)

\* a call c.to_python(omobj)
ToPython ==
    \E omobj \in Nodes :
        /\ last' = [op |-> "to_python", omobj |-> omobj]
                       @@ to_python(omclass_to_py, oms_to_py, omobj)
        /\ UNCHANGED <<conv_to_om, omclass_to_py, oms_to_py, other, heap>>

NextOM == RegisterToOpenmath \/ ToOpenmath

\* The native-to-OM direction of a fresh Converter.
SpecOM == Init /\ [][NextOM]_vars

NextPy ==
    \/ RegisterToPythonClass
    \/ RegisterToPythonName
    \/ RegisterToPythonCd
    \/ RegisterToPythonCdbase
    \/ ToPython

\* The OM-to-native direction of a fresh Converter.
SpecPy == Init /\ [][NextPy]_vars

\* ------------------------------------------------------ two converters
\* The same operations on a second instance d = Converter(), whose
\* registries are d's own attributes.
OtherRegisterToOpenmath ==
    /\ Len(other.conv_to_om) < MaxRules
    /\ other' = [other EXCEPT !.conv_to_om = Append(@, [cl |-> "int", conv |-> ConstNode])]
    /\ last' = [op |-> "other.register_to_openmath", result |-> Return(None)]
    /\ UNCHANGED <<conv_to_om, omclass_to_py, oms_to_py, heap>>
OtherRegisterToPythonClass ==
    /\ other' = [other EXCEPT !.omclass_to_py = DictSet(@, "OMInteger", "c2")]
    /\ last' = [op |-> "other.register_to_python_class", result |-> Return(None)]
    /\ UNCHANGED <<conv_to_om, omclass_to_py, oms_to_py, heap>>
OtherRegisterToPythonName ==
    /\ other' = [other EXCEPT !.oms_to_py =
                     DictSet(@, <<"b", "c", "n">>, [py |-> [obj |-> "mklist"]])]
    /\ last' = [op |-> "other.register_to_python_name", result |-> Return(None)]
    /\ UNCHANGED <<conv_to_om, omclass_to_py, oms_to_py, heap>>
OtherToOpenmath ==
    \E obj \in {VInt, VStr} :
        /\ last' = [op |-> "other.to_openmath", obj |-> obj]
                       @@ to_openmath(other.conv_to_om, obj)
        /\ UNCHANGED <<conv_to_om, omclass_to_py, oms_to_py, other, heap>>
OtherToPython ==
    \E omobj \in {IntNode, OMSymbol("n", "c", None, "b")} :
        /\ last' = [op |-> "other.to_python", omobj |-> omobj]
                       @@ to_python(other.omclass_to_py, other.oms_to_py, omobj)
        /\ UNCHANGED <<conv_to_om, omclass_to_py, oms_to_py, other, heap>>

\* registrations on c with a few arguments, conversions on c, and the
\* operations on d
NextTwo ==
    \/ \E py_class \in {"int", NotAClass}, converter \in {[fn |-> "to_om_int"], ConstNode} :
          register_to_openmath(py_class, converter)
    \/ \E conv \in ClassConvs : register_to_python_class("OMInteger", conv)
    \/ \E py \in PyObjects : register_to_python_name("b", "c", "n", py)
    \/ ToOpenmath
    \/ ToPython
    \/ OtherRegisterToOpenmath
    \/ OtherRegisterToPythonClass
    \/ OtherRegisterToPythonName
    \/ OtherToOpenmath
    \/ OtherToPython

\* Two Converter instances, both directions.
SpecTwo == Init /\ [][NextTwo]_vars

\* ------------------------------------------- the default converter
\* The registries of a BasicPythonConverter after __init__: the rules in
\* the order of their registration (int, str, bytes, bool, float, complex,
\* list, set, range).
Rule(cl, fn) == [cl |-> cl, conv |-> [fn |-> fn]]
\* A rule list with the rule for bool registered before the rule for int.
BasicConvToOmBoolFirst ==
    << Rule("bool", "to_om_bool"), Rule("int", "to_om_int"),
       Rule("str", "to_om_str"), Rule("bytes", "to_om_bytes"),
       Rule("float", "do_float"), Rule("complex", "to_om_complex"),
       Rule("list", "do_list"), Rule("set", "do_set"), Rule("range", "do_range") >>
BasicConvToOm ==
    << Rule("int", "to_om_int"), Rule("str", "to_om_str"),
       Rule("bytes", "to_om_bytes"), Rule("bool", "to_om_bool"),
       Rule("float", "do_float"), Rule("complex", "to_om_complex"),
       Rule("list", "do_list"), Rule("set", "do_set"), Rule("range", "do_range") >>

BasicOmclassToPy ==
    [c \in {"OMInteger", "OMFloat", "OMString", "OMBytes"} |->
        CASE c = "OMInteger" -> "integer"
          [] c = "OMFloat" -> "double"
          [] c = "OMString" -> "string"
          [] OTHER -> "bytes"]

\* r(cd, name, py) for the eight names registered by __init__
BasicNames ==
    { <<"nums1", "infinity", PyFloat("inf")>>,
      <<"logic1", "true", PyBool("True")>>,
      <<"logic1", "false", PyBool("False")>>,
      <<"set1", "emptyset", PySet(<<>>)>>,
      <<"set1", "set", [obj |-> "mkset"]>>,
      <<"list1", "list", [obj |-> "mklist"]>>,
      <<"complex1", "complex_cartesian", [obj |-> "complex"]>>,
      <<"interval1", "integer_interval", [obj |-> "mkrange"]>> }
BasicOmsToPy ==
    [key \in {<<_omBase, n[1], n[2]>> : n \in BasicNames} |->
        [py |-> (CHOOSE n \in BasicNames : <<n[1], n[2]>> = <<key[2], key[3]>>)[3]]]

\* The native values handed to the default converter.
Ints == (-1)..MaxInt
FloatReprs == {"0.1", "inf", "nan"}
Items == {PyBool("True"), PyInt(1), PyInt(2), PyFloat("0.1"), PyStr("test")}
BasicAtoms ==
    {PyBool("True"), PyBool("False")} \cup {PyInt(n) : n \in Ints}
    \cup {PyFloat(d) : d \in FloatReprs} \cup {PyStr(""), PyStr("test")}
    \cup {PyBytes("x")} \cup {PyComplex(re, im) : re \in FloatReprs, im \in FloatReprs}
BasicRanges ==
    {PyRange(start, stop, step) : start \in Ints, stop \in Ints, step \in {1, 2}}
BasicLists ==
    {PyList(<<>>)} \cup {PyList(<<a>>) : a \in Items}
    \cup {PyList(<<a, b>>) : a \in Items, b \in Items}
    \cup {PyList(<<PyList(<<PyInt(1)>>), PyRange(0, 2, 1)>>),
          PyList(<<PyInt(1), VDict>>), PyList(<<PyRange(0, 2, 2)>>)}
\* the items of a set are pairwise different: True and 1 are the same
BasicSets ==
    {PySet(<<>>)} \cup {PySet(<<a>>) : a \in Items}
    \cup {PySet(<<p[1], p[2]>>) :
             p \in {q \in Items \X Items :
                       /\ q[1] # q[2]
                       /\ {q[1], q[2]} # {PyBool("True"), PyInt(1)}}}
BasicValues == BasicAtoms \cup BasicRanges \cup BasicLists \cup BasicSets \cup {VDict}

InitBasic ==
    /\ conv_to_om = BasicConvToOm
    /\ omclass_to_py = BasicOmclassToPy
    /\ oms_to_py = BasicOmsToPy
    /\ last = NoCall
    /\ other = NewConverter
    /\ heap = [built |-> FALSE]

\* a call DefaultConverter.to_openmath(obj)
ToOpenmathBasic ==
    \E obj \in BasicValues :
        /\ last' = [op |-> "to_openmath", obj |-> obj]
                       @@ to_openmath(conv_to_om, obj)
        /\ UNCHANGED <<conv_to_om, omclass_to_py, oms_to_py, other, heap>>

\* DefaultConverter.to_python(node) for the node to_openmath(obj) returned
ToPythonBasic ==
    /\ last.op = "to_openmath"
    /\ IsReturn(last.result)
    /\ last' = [op |-> "to_python", omobj |-> last.result.val, of |-> last.obj]
                   @@ to_python(omclass_to_py, oms_to_py, last.result.val)
    /\ UNCHANGED <<conv_to_om, omclass_to_py, oms_to_py, other, heap>>

NextBasic == ToOpenmathBasic \/ ToPythonBasic

\* A fresh BasicPythonConverter, converting to OpenMath and back.
SpecBasic == InitBasic /\ [][NextBasic]_vars

\* s.add(x) for a set s
SetAdd(s, x) ==
    IF \E k \in DOMAIN s.items : s.items[k] = x THEN s ELSE PySet(Append(s.items, x))

\* the caller adds an element to the set the last to_python returned: the
\* set registered by name when the call returned that object (lambda: py
\* returns the registered object itself), a new set when the call built one
AddToReturnedSet ==
    /\ last.op = "to_python"
    /\ IsReturn(last.result)
    /\ "cls" \in DOMAIN last.result.val
    /\ last.result.val.cls = "set"
    /\ \E x \in {PyInt(1), PyInt(2)} :
          /\ last' = [op |-> "add", set |-> SetAdd(last.result.val, x)]
          /\ IF /\ last.omobj.cls = "OMSymbol"
                /\ "OMSymbol" \notin DOMAIN omclass_to_py
                /\ Len(last.calls) = 1
                /\ "py" \in DOMAIN oms_to_py[last.calls[1].key]
             THEN oms_to_py' = [oms_to_py EXCEPT ![last.calls[1].key].py = SetAdd(@, x)]
             ELSE UNCHANGED oms_to_py
    /\ UNCHANGED <<conv_to_om, omclass_to_py, other, heap>>

NextCallers == ToOpenmathBasic \/ ToPythonBasic \/ AddToReturnedSet

\* The default converter with callers that change the sets they get.
SpecCallers == InitBasic /\ [][NextCallers]_vars

\* ------------------------------------------------------ the XML codec
\* An XML element: its tag, its attributes (a dict), its text and its
\* children.  A tag "{ns}local" is the record of its two parts.
Element(tag, attrib, text, children) ==
    [tag |-> tag, attrib |-> attrib, text |-> text, children |-> children]

openmath_ns == "http://www.openmath.org/OpenMath"
\* _om(t) = "{%s}%s" % (openmath_ns, t)
_om(t) == [ns |-> openmath_ns, local |-> t]

\* str(None): the four letters, which are not the object None
NoneText == "'None'"
\* str(v) for v a string or None
str(v) == IF v = None THEN NoneText ELSE v

\* _make_element(tag, *children, **attributes): an attribute that is None
\* is omitted, the attribute "" is the text
_make_element(tag, children, attributes) ==
    LET set == {k \in 1..Len(attributes) : attributes[k][2] # None}
        names == {attributes[k][1] : k \in set} \ {""}
        value(a) == attributes[CHOOSE k \in set : attributes[k][1] = a][2]
    IN  Element(tag, [a \in names |-> str(value(a))],
                IF \E k \in set : attributes[k][1] = "" THEN str(value("")) ELSE None,
                children)

RECURSIVE encode_xml(_)
RECURSIVE EncodeAll(_, _)

\* list(map(encode_xml, nodes)), from the i-th on: the first failure raises
EncodeAll(nodes, i) ==
    IF i > Len(nodes) THEN Return(<<>>)
    ELSE LET r == encode_xml(nodes[i])
         IN  IF ~IsReturn(r) THEN r
             ELSE LET rest == EncodeAll(nodes, i + 1)
                  IN  IF ~IsReturn(rest) THEN rest
                      ELSE Return(<<r.val>> \o rest.val)

\* the keys and values of a list of pairs, alternating
Flatten(pairs) ==
    [k \in 1..(2 * Len(pairs)) |-> pairs[(k + 1) \div 2][IF k % 2 = 1 THEN 1 ELSE 2]]

\* encode_xml(obj).  The branches read the attributes the classes of
\* openmath.py define; reading one they do not define (val, A, B) raises
\* AttributeError, and the test against the undefined name OMVarVar
\* raises NameError for every object that reaches it.
encode_xml(obj) ==
    CASE obj.cls = "OMObject" ->
            LET omel == encode_xml(obj.omel)
            IN  IF ~IsReturn(omel) THEN omel
                ELSE Return(_make_element(_om("OMOBJ"), <<omel.val>>,
                        << <<"version", obj.version>>, <<"id", obj.id>>,
                           <<"cdbase", obj.cdbase>> >>))
      [] obj.cls = "OMReference" ->
            Return(_make_element(_om("OMR"), <<>>,
                    << <<"href", obj.href>>, <<"id", obj.id>> >>))
      [] obj.cls = "OMInteger" -> Raise("AttributeError")
      [] obj.cls = "OMFloat" -> Raise("AttributeError")
      [] obj.cls = "OMString" ->
            Return(_make_element(_om("OMSTR"), <<>>,
                    << <<"id", obj.id>>, <<"", obj.string>> >>))
         \* b64encode gives bytes, which have no method encode
      [] obj.cls = "OMBytes" -> Raise("AttributeError")
      [] obj.cls = "OMSymbol" ->
            Return(_make_element(_om("OMS"), <<>>,
                    << <<"id", obj.id>>, <<"name", obj.name>>, <<"cd", obj.cd>>,
                       <<"cdbase", obj.cdbase>> >>))
      [] obj.cls = "OMVariable" ->
            Return(_make_element(_om("OMV"), <<>>,
                    << <<"id", obj.id>>, <<"name", obj.name>> >>))
      [] obj.cls = "OMForeign" ->
            Return(_make_element(_om("OMFOREIGN"), <<>>,
                    << <<"id", obj.id>>, <<"cdbase", obj.cdbase>>,
                       <<"encoding", obj.encoding>>, <<"", obj.obj>> >>))
      [] obj.cls = "OMApplication" ->
            LET children == EncodeAll(obj.arguments, 1)
            IN  IF ~IsReturn(children) THEN children
                ELSE LET elem == encode_xml(obj.elem)
                     IN  IF ~IsReturn(elem) THEN elem
                         ELSE Return(_make_element(_om("OMA"),
                                 <<elem.val>> \o children.val,
                                 << <<"id", obj.id>>, <<"cdbase", obj.cdbase>> >>))
      [] obj.cls = "OMAttribution" ->
            LET pairs == encode_xml(obj.pairs)
            IN  IF ~IsReturn(pairs) THEN pairs ELSE Raise("AttributeError")
      [] obj.cls = "OMAttributionPairs" ->
            LET pairs == EncodeAll(Flatten(obj.pairs), 1)
            IN  IF ~IsReturn(pairs) THEN pairs
                ELSE Return(_make_element(_om("OMATP"), pairs.val,
                        << <<"id", obj.id>> >>))
      [] obj.cls = "OMBinding" -> Raise("AttributeError")
      [] obj.cls = "OMBindVariables" ->
            LET vars_ == EncodeAll(obj.vars, 1)
            IN  IF ~IsReturn(vars_) THEN vars_
                ELSE Return(_make_element(_om("OMBVAR"), vars_.val,
                        << <<"id", obj.id>> >>))
      [] OTHER -> Raise("NameError")

\* xml.omtags: the class of each tag
omtags ==
    [t \in {"OMOBJ", "OMR", "OMI", "OMF", "OMSTR", "OMB", "OMS", "OMV",
            "OMFOREIGN", "OMA", "OMATTR", "OMATP", "OMBIND", "OMBVAR", "OME"} |->
        CASE t = "OMOBJ" -> "OMObject"
          [] t = "OMR" -> "OMReference"
          [] t = "OMI" -> "OMInteger"
          [] t = "OMF" -> "OMFloat"
          [] t = "OMSTR" -> "OMString"
          [] t = "OMB" -> "OMBytes"
          [] t = "OMS" -> "OMSymbol"
          [] t = "OMV" -> "OMVariable"
          [] t = "OMFOREIGN" -> "OMForeign"
          [] t = "OMA" -> "OMApplication"
          [] t = "OMATTR" -> "OMAttribution"
          [] t = "OMATP" -> "OMAttributionPairs"
          [] t = "OMBIND" -> "OMBinding"
          [] t = "OMBVAR" -> "OMBindVariables"
          [] OTHER -> "OMError"]

\* xml.tag_to_object(tag)
tag_to_object(tag) ==
    IF tag.ns # openmath_ns THEN Raise("ValueError")
    ELSE IF tag.local \notin DOMAIN omtags THEN Raise("KeyError")
    ELSE Return(omtags[tag.local])

\* issubclass(obj, om.CDBaseAttribute)
CDBaseClasses ==
    {"OMObject", "OMSymbol", "OMForeign", "OMApplication", "OMAttribution",
     "OMAttributionPairs", "OMBinding", "OMError"}

\* elem.get(p)
Get(elem, p) == IF p \in DOMAIN elem.attrib THEN elem.attrib[p] ELSE None

\* int(text) and float(text) for the text of an element
IntOfText(text) ==
    CASE text = None -> Raise("TypeError")
      [] text = "0" -> Return(0)
      [] text = "1" -> Return(1)
      [] text = "2" -> Return(2)
      [] OTHER -> Raise("ValueError")
FloatOfText(text) ==
    CASE text = None -> Raise("TypeError")
      [] text \in {"0.1", "inf", "nan"} -> Return(text)
      [] OTHER -> Raise("ValueError")
\* base64.b64decode(text)
B64Decode(text) ==
    CASE text = None -> Raise("TypeError")
      [] text = "eA==" -> Return("x")
      [] OTHER -> Raise("binascii.Error")

RECURSIVE decode_xml(_, _)
RECURSIVE DecodeAll(_, _, _)

\* list(map(lambda x: decode_xml(x, _in_bind), elems)), from the i-th on
DecodeAll(elems, i, _in_bind) ==
    IF i > Len(elems) THEN Return(<<>>)
    ELSE LET r == decode_xml(elems[i], _in_bind)
         IN  IF ~IsReturn(r) THEN r
             ELSE LET rest == DecodeAll(elems, i + 1, _in_bind)
                  IN  IF ~IsReturn(rest) THEN rest
                      ELSE Return(<<r.val>> \o rest.val)

\* the fixed children elem[0], .., elem[n-1] decoded: IndexError when one
\* is missing
DecodeFixed(elem, n, _in_bind) ==
    LET have == IF Len(elem.children) < n THEN Len(elem.children) ELSE n
        r == DecodeAll(SubSeq(elem.children, 1, have), 1, _in_bind)
    IN  IF ~IsReturn(r) THEN r
        ELSE IF have < n THEN Raise("IndexError")
        ELSE r

\* zip(elems[::2], elems[1::2]) of the decoded elements
Pairs(nodes) == [k \in 1..(Len(nodes) \div 2) |-> <<nodes[2 * k - 1], nodes[2 * k]>>]

\* decoder.decode_xml(elem, _in_bind)
decode_xml(elem, _in_bind) ==
    LET obj == tag_to_object(elem.tag)
        id == Get(elem, "id")
        cdbase == Get(elem, "cdbase")
        c == elem.children
    IN  IF ~IsReturn(obj) THEN obj
        ELSE CASE obj.val = "OMObject" ->
                LET r == DecodeFixed(elem, 1, FALSE)
                IN  IF ~IsReturn(r) THEN r
                    ELSE Return(OMObject(r.val[1], Get(elem, "version"), id, cdbase))
          [] obj.val = "OMReference" -> Return(OMReference(str(Get(elem, "href")), id))
          [] obj.val = "OMInteger" ->
                LET n == IntOfText(elem.text)
                IN  IF ~IsReturn(n) THEN n ELSE Return(OMInteger(n.val, id))
          [] obj.val = "OMFloat" ->
                LET d == FloatOfText(Get(elem, "dec"))
                IN  IF ~IsReturn(d) THEN d ELSE Return(OMFloat(d.val, id))
          [] obj.val = "OMString" -> Return(OMString(elem.text, id))
          [] obj.val = "OMBytes" ->
                LET b == B64Decode(elem.text)
                IN  IF ~IsReturn(b) THEN b ELSE Return(OMBytes(b.val, id))
          [] obj.val = "OMSymbol" ->
                Return(OMSymbol(str(Get(elem, "name")), str(Get(elem, "cd")), id, cdbase))
          [] obj.val = "OMVariable" -> Return(OMVariable(str(Get(elem, "name")), id))
          [] obj.val = "OMForeign" ->
                Return(OMForeign(elem.text, Get(elem, "encoding"), id, cdbase))
          [] obj.val = "OMApplication" ->
                LET r == DecodeFixed(elem, 1, FALSE)
                    rest == DecodeAll(c, 2, FALSE)
                IN  IF ~IsReturn(r) THEN r
                    ELSE IF ~IsReturn(rest) THEN rest
                    ELSE Return(OMApplication(r.val[1], rest.val, id, cdbase))
          [] obj.val = "OMAttribution" ->
                LET r == DecodeFixed(elem, 2, FALSE)
                IN  IF ~IsReturn(r) THEN r
                    ELSE Return(OMAttribution(r.val[1], r.val[2], id, cdbase))
          [] obj.val = "OMAttributionPairs" ->
                IF ~_in_bind
                THEN LET r == DecodeAll(SubSeq(c, 1, 2 * (Len(c) \div 2)), 1, FALSE)
                     IN  IF ~IsReturn(r) THEN r
                         ELSE Return(OMAttributionPairs(Pairs(r.val), id, cdbase))
                     \* OMAttVar(id=, cdbase=, pairs=, obj=): the constructor
                     \* of OMAttVar takes no cdbase
                ELSE LET r == DecodeFixed(elem, 2, TRUE)
                     IN  IF ~IsReturn(r) THEN r ELSE Raise("TypeError")
          [] obj.val = "OMBinding" ->
                LET r == DecodeFixed(elem, 3, FALSE)
                IN  IF ~IsReturn(r) THEN r
                    ELSE Return(OMBinding(r.val[1], r.val[2], r.val[3], id, cdbase))
          [] obj.val = "OMBindVariables" ->
                LET r == DecodeAll(c, 1, TRUE)
                IN  IF ~IsReturn(r) THEN r ELSE Return(OMBindVariables(r.val, id))
          [] OTHER ->
                LET r == DecodeFixed(elem, 1, FALSE)
                    rest == DecodeAll(c, 2, FALSE)
                IN  IF ~IsReturn(r) THEN r
                    ELSE IF ~IsReturn(rest) THEN rest
                    ELSE Return(OMError(r.val[1], rest.val, id, cdbase))

\* decoder.decode_stream(stream, validator), for a stream that parses to
\* the element root: the validator, when given, accepts the tree or raises
decode_stream(root, validator) ==
    IF validator = "rejects" THEN Raise("DocumentInvalid")
    ELSE LET v == Get(root, "version")
         IN  IF v = None \/ v = "" \/ v # "2.0" THEN Raise("ValueError")
             ELSE decode_xml(root, FALSE)

\* xml.object_to_tag(obj): inv_omtags is a dict, and calling it raises
object_to_tag(obj) == Raise("TypeError")

\* Elements whose tag is not registered: an unknown name in the OpenMath
\* namespace, a registered name in another namespace and in none.
Unregistered ==
    {Element(_om("OMFOO"), [a \in {} |-> None], None, <<>>),
     Element([ns |-> "http://example.org", local |-> "OMI"], [a \in {} |-> None], "1", <<>>),
     Element([ns |-> None, local |-> "OMSTR"], [a \in {} |-> None], "hello world", <<>>)}

\* The elements handed to the decoder: leaves, roots with each state of
\* the version attribute (absent, "2.0", another value, empty), elements
\* with an unregistered child in a position that is decoded or not, and
\* OMBVAR and OMBIND elements with variables and attributed variables.
Elements ==
    LET El(t, attrib, text, children) == Element(_om(t), attrib, text, children)
        NoAttrib == [a \in {} |-> None]
        ElSym == El("OMS", ("name" :> "n") @@ ("cd" :> "c"), None, <<>>)
        ElVar == El("OMV", ("name" :> "x"), None, <<>>)
        ElVarY == El("OMV", ("name" :> "y") @@ ("id" :> "i"), None, <<>>)
        ElStr == El("OMSTR", NoAttrib, "s", <<>>)
        ElInt == El("OMI", NoAttrib, "1", <<>>)
        ElAtp == El("OMATP", NoAttrib, None, <<ElSym, ElStr>>)
        ElAttr == El("OMATTR", NoAttrib, None, <<ElAtp, ElVar>>)
        ElBvar == El("OMBVAR", NoAttrib, None, <<ElVar>>)
        ElUnknown == El("OMFOO", NoAttrib, None, <<>>)
        ElOtherNs == Element([ns |-> "http://example.org", local |-> "OMI"], NoAttrib, "1", <<>>)
        Versions == {NoAttrib, ("version" :> "2.0"), ("version" :> "1.0"), ("version" :> "")}
        Roots ==
            {El("OMOBJ", v, None, <<c>>) :
                v \in Versions, c \in {ElSym, ElInt, ElUnknown,
                                        El("OMOBJ", ("version" :> "1.0"), None, <<ElSym>>)}}
            \cup {El("OMSTR", v, "s", <<>>) : v \in Versions}
            \cup {El("OMOBJ", ("version" :> "2.0"), None, <<>>)}
        Nested ==
            {El("OMA", NoAttrib, None, c) : c \in {<<ElSym, ElVar>>, <<ElSym, ElUnknown>>,
                                                    <<ElUnknown>>, <<ElSym, ElOtherNs>>}}
            \cup {El("OMATP", NoAttrib, None, <<ElSym, ElStr, ElUnknown>>),
                  El("OMOBJ", ("version" :> "2.0"), None, <<ElSym, ElUnknown>>),
                  El("OMATTR", NoAttrib, None, <<ElAtp, ElVar, ElUnknown>>),
                  El("OME", NoAttrib, None, <<ElSym, ElUnknown>>),
                  El("OMBIND", NoAttrib, None, <<ElSym, ElBvar, ElUnknown>>),
                  El("OMS", ("name" :> "n") @@ ("cd" :> "c"), None, <<ElUnknown>>)}
        Bindings ==
            {El("OMBVAR", NoAttrib, None, c) :
                c \in {<<>>, <<ElVar>>, <<ElVar, ElVarY>>, <<ElVarY, ElVar>>, <<ElAttr>>,
                       <<ElVar, ElAttr>>, <<ElAtp>>, <<ElUnknown>>}}
            \cup {El("OMBIND", NoAttrib, None, <<b, El("OMBVAR", NoAttrib, None, <<v>>), b>>) :
                     b \in {ElSym, ElAttr}, v \in {ElVar, ElAttr}}
    IN  {ElSym, ElVar, ElStr, ElInt, ElAtp, ElAttr} \cup Unregistered
        \cup Roots \cup Nested \cup Bindings

\* The objects handed to encode_xml: nodes of every class, with and
\* without id and cdbase, and objects of no OpenMath node class.
Ids == {None, "i"}
Bases == {None, "b"}
SymNode == OMSymbol("n", "c", None, None)
StrNode == OMString("s", None)
AppNode == OMApplication(SymNode, <<VarNode>>, None, None)
LeafNodes ==
    {OMSymbol("n", "c", id, cdbase) : id \in Ids, cdbase \in Bases}
    \cup {OMVariable("x", id) : id \in Ids}
    \cup {OMReference("#r", id) : id \in Ids}
    \cup {OMInteger(1, id) : id \in Ids}
    \cup {OMFloat("0.1", id) : id \in Ids}
    \cup {OMString(string, id) : string \in {"s", None}, id \in Ids}
    \cup {OMBytes("x", id) : id \in Ids}
    \cup {OMForeign("f", encoding, id, cdbase) :
             encoding \in {None, "e"}, id \in Ids, cdbase \in Bases}
PairLists == {<<>>, << <<SymNode, StrNode>> >>, << <<SymNode, StrNode>>, <<SymNode, VarNode>> >>}
AtpNode == OMAttributionPairs(<< <<SymNode, StrNode>> >>, None, None)
VarLists == {<<VarNode>>, <<VarNode, OMVariable("y", "i")>>, <<OMAttVar(AtpNode, VarNode, None)>>}
CompoundNodes ==
    {OMApplication(SymNode, arguments, id, cdbase) :
        arguments \in {<<>>, <<VarNode>>, <<VarNode, StrNode>>, <<IntNode>>, <<AppNode, VarNode>>},
        id \in Ids, cdbase \in Bases}
    \cup {OMAttributionPairs(pairs, id, cdbase) :
             pairs \in PairLists, id \in Ids, cdbase \in Bases}
    \cup {OMAttribution(AtpNode, VarNode, id, cdbase) : id \in Ids, cdbase \in Bases}
    \cup {OMBindVariables(vars_, id) : vars_ \in VarLists, id \in Ids}
    \cup {OMBinding(SymNode, OMBindVariables(<<VarNode>>, None), VarNode, id, cdbase) :
             id \in Ids, cdbase \in Bases}
    \cup {OMError(SymNode, params, id, cdbase) :
             params \in {<<>>, <<StrNode>>}, id \in Ids, cdbase \in Bases}
    \cup {OMObject(omel, None, id, cdbase) :
             omel \in {SymNode, VarNode, StrNode, IntNode, AppNode, AtpNode}, id \in Ids, cdbase \in Bases}
\* the 15 classes with a tag of their own
Variants == {omtags[t] : t \in DOMAIN omtags}
\* objects outside the 15 classes: a bare OMAny, an int and a string
OMAny == [cls |-> "OMAny"]
NoVariant == {OMAny, PyInt(1), PyStr("test")}
Encodables == LeafNodes \cup CompoundNodes \cup NoVariant

\* a call encode_xml(obj)
EncodeXml ==
    \E obj \in Encodables :
        /\ last' = [op |-> "encode_xml", obj |-> obj, result |-> encode_xml(obj)]
        /\ UNCHANGED <<conv_to_om, omclass_to_py, oms_to_py, other, heap>>

\* decode_xml(elem) for the element elem that encode_xml(obj) returned
DecodeXml ==
    /\ last.op = "encode_xml"
    /\ IsReturn(last.result)
    /\ last' = [op |-> "decode_xml", elem |-> last.result.val, of |-> last.obj,
                result |-> decode_xml(last.result.val, FALSE)]
    /\ UNCHANGED <<conv_to_om, omclass_to_py, oms_to_py, other, heap>>

\* encode_xml(decode_xml(encode_xml(obj)))
ReEncodeXml ==
    /\ last.op = "decode_xml"
    /\ "of" \in DOMAIN last
    /\ IsReturn(last.result)
    /\ last' = [op |-> "re_encode_xml", obj |-> last.result.val, of |-> last.of,
                first |-> last.elem, result |-> encode_xml(last.result.val)]
    /\ UNCHANGED <<conv_to_om, omclass_to_py, oms_to_py, other, heap>>

\* a call decode_xml(elem) on an element of a parsed document
DecodeElement ==
    \E elem \in Elements :
        /\ last' = [op |-> "decode_xml", elem |-> elem,
                    result |-> decode_xml(elem, FALSE)]
        /\ UNCHANGED <<conv_to_om, omclass_to_py, oms_to_py, other, heap>>

\* a call decode_stream(stream, validator), or decode_bytes(xml, validator)
DecodeStream ==
    \E root \in Elements, validator \in {None, "accepts", "rejects"} :
        /\ last' = [op |-> "decode_stream", elem |-> root, validator |-> validator,
                    result |-> decode_stream(root, validator)]
        /\ UNCHANGED <<conv_to_om, omclass_to_py, oms_to_py, other, heap>>

\* a call xml.tag_to_object(tag)
TagToObject ==
    \E tag \in {_om(t) : t \in DOMAIN omtags} \cup {e.tag : e \in Unregistered} :
        /\ last' = [op |-> "tag_to_object", tag |-> tag, result |-> tag_to_object(tag)]
        /\ UNCHANGED <<conv_to_om, omclass_to_py, oms_to_py, other, heap>>

\* a call xml.object_to_tag(obj) for a node class obj
ObjectToTag ==
    \E obj \in Variants :
        /\ last' = [op |-> "object_to_tag", obj |-> obj, result |-> object_to_tag(obj)]
        /\ UNCHANGED <<conv_to_om, omclass_to_py, oms_to_py, other, heap>>

NextCodec ==
    \/ EncodeXml
    \/ DecodeXml
    \/ ReEncodeXml
    \/ DecodeElement
    \/ DecodeStream
    \/ TagToObject
    \/ ObjectToTag

\* Encoding nodes to XML, decoding the result and encoding it again.
SpecCodec == Init /\ [][NextCodec]_vars

\* ------------------------------------------------- nodes and their lists
\* the most items a list of a node holds
MaxArgs == 3

\* the classes whose constructor stores list(...) of a sequence argument,
\* and the property that returns the stored list itself
SeqField ==
    [OMApplication |-> "arguments", OMAttributionPairs |-> "pairs",
     OMBindVariables |-> "vars", OMError |-> "params"]
\* what a caller puts in such a list: nodes, and None in the lists of the
\* applications an unpickler builds
PyNone == [cls |-> "NoneType"]
ListItems == {IntNode, PyNone}

\* cls(..., seq, ...): the constructor stores a list of its own
Construct(cls, seq) ==
    CASE cls = "OMApplication" -> OMApplication(SymNode, seq, None, None)
      [] cls = "OMAttributionPairs" -> OMAttributionPairs(seq, None, None)
      [] cls = "OMBindVariables" -> OMBindVariables(seq, None)
      [] cls = "OMError" -> OMError(SymNode, seq, None, None)

\* OMUnpickler.finalize(value) for a node or None: the arguments of an
\* application are finalized in place, a node is returned as it is, and
\* None becomes PickleConverter.OMNone()
RECURSIVE finalize(_)
finalize(value) ==
    IF value = PyNone THEN OMSymbol("None", "__builtin__", None, "http://python.org")
    ELSE IF value.cls = "OMApplication"
    THEN [value EXCEPT !.arguments =
             [i \in DOMAIN value.arguments |-> finalize(value.arguments[i])]]
    ELSE value

\* the caller builds a node from a list it keeps
ConstructNode ==
    \E cls \in DOMAIN SeqField,
       seq \in UNION {[1..k -> ListItems] : k \in 0..(MaxArgs - 1)} :
        /\ heap' = [built |-> TRUE, node |-> Construct(cls, seq), given |-> seq]
        /\ last' = [op |-> "construct"]
        /\ UNCHANGED <<conv_to_om, omclass_to_py, oms_to_py, other>>

\* the caller appends to the list it passed to the constructor
ModifyGiven ==
    /\ heap.built
    /\ Len(heap.given) < MaxArgs
    /\ \E x \in ListItems :
          /\ heap' = [heap EXCEPT !.given = Append(@, x)]
          /\ last' = [op |-> "modify_given", before |-> heap.node]
    /\ UNCHANGED <<conv_to_om, omclass_to_py, oms_to_py, other>>

\* the caller reads node.arguments (pairs, vars, params) and appends to
\* the list it got, which is the list the node holds
ModifyReturned ==
    /\ heap.built
    /\ LET field == SeqField[heap.node.cls]
       IN  /\ Len(heap.node[field]) < MaxArgs
           /\ \E x \in ListItems :
                 /\ heap' = [heap EXCEPT !.node[field] = Append(@, x)]
                 /\ last' = [op |-> "modify_returned", before |-> heap.node]
    /\ UNCHANGED <<conv_to_om, omclass_to_py, oms_to_py, other>>

\* OMUnpickler.load_stop: value = self.finalize(value)
Finalize ==
    /\ heap.built
    /\ heap' = [heap EXCEPT !.node = finalize(@)]
    /\ last' = [op |-> "finalize", before |-> heap.node]
    /\ UNCHANGED <<conv_to_om, omclass_to_py, oms_to_py, other>>

NextNode ==
    \/ ConstructNode
    \/ ModifyGiven
    \/ ModifyReturned
    \/ Finalize

\* A caller building nodes and working with their lists.
SpecNode == Init /\ [][NextNode]_vars

\* ================================================== properties, to OM
LastToOM == last.op = "to_openmath"

\* rule i of rules is tried for obj: its guard is None or obj is an instance
Applicable(rules, obj, i) == rules[i].cl = None \/ IsInstance(obj, rules[i].cl)
\* rule i signals CannotConvertError for obj
Signals(rules, obj, i) ==
    IsRaise(CallConv(rules, rules[i].conv, obj), "CannotConvertError")
\* the applicable rules that do not signal CannotConvertError
Decisive(rules, obj) ==
    {i \in 1..Len(rules) : Applicable(rules, obj, i) /\ ~Signals(rules, obj, i)}
SetMax(S) == CHOOSE x \in S : \A y \in S : y <= x
Range(seq) == {seq[k] : k \in 1..Len(seq)}

\* C1: to_openmath(v) invokes the rules from the most recently registered
\* to the oldest, only those whose guard is None or matches v, stops at
\* the first one that does not signal CannotConvertError and yields its
\* outcome; no older rule is invoked.
C1_NewestFirst ==
    LastToOM =>
        LET rules == conv_to_om
            obj == last.obj
            tried == last.tried
            first == IF Decisive(rules, obj) = {} THEN 1
                     ELSE SetMax(Decisive(rules, obj))
        IN  /\ \A k \in 1..(Len(tried) - 1) : tried[k] > tried[k + 1]
            /\ Range(tried) =
                   {i \in 1..Len(rules) : i >= first /\ Applicable(rules, obj, i)}
            /\ Decisive(rules, obj) # {} =>
                   /\ last.result = CallConv(rules, rules[first].conv, obj)
                   /\ tried[Len(tried)] = first

\* C1 witness: two applicable rules, the newer one returned a node and the
\* older one was not invoked.
C1_Witness ==
    /\ LastToOM
    /\ Len(conv_to_om) = 2
    /\ Applicable(conv_to_om, last.obj, 1)
    /\ last.tried = <<2>>
    /\ IsReturn(last.result)

SkipRule == [cl |-> None, conv |-> [fn |-> "skip"]]

\* C2: a rule that signals CannotConvertError does not abort to_openmath:
\* the next-older applicable rule is invoked; and registering a guard-less
\* rule that always signals CannotConvertError changes the result of
\* to_openmath for no value.
C2_SkipAndContinue ==
    /\ [](LastToOM =>
            \A k \in 1..Len(last.tried) :
                LET i == last.tried[k]
                    older == {j \in 1..(i - 1) : Applicable(conv_to_om, last.obj, j)}
                IN  (Signals(conv_to_om, last.obj, i) /\ older # {}) =>
                        /\ k < Len(last.tried)
                        /\ last.tried[k + 1] = SetMax(older))
    /\ [][conv_to_om' = Append(conv_to_om, SkipRule) =>
            \A v \in Values :
                to_openmath(conv_to_om', v).result = to_openmath(conv_to_om, v).result]_vars

\* C2 witness: the newest rule is the guard-less skip rule, it was invoked,
\* and the conversion went on to an older rule that returned a node.
C2_Witness ==
    /\ LastToOM
    /\ Len(last.tried) >= 2
    /\ conv_to_om[last.tried[1]] = SkipRule
    /\ IsReturn(last.result)

\* C3: when an invoked rule fails with an error other than
\* CannotConvertError, to_openmath fails with that error, no older rule is
\* invoked and __openmath__ is not called.
C3_OtherErrorAborts ==
    LastToOM =>
        \A k \in 1..Len(last.tried) :
            LET r == CallConv(conv_to_om, conv_to_om[last.tried[k]].conv, last.obj)
            IN  (r.kind = "raise" /\ r.exc # "CannotConvertError") =>
                    /\ last.result = r
                    /\ k = Len(last.tried)
                    /\ ~last.hook

\* C3 witness: a value with __openmath__, the newest rule raised
\* RuntimeError, an older applicable rule exists and was not invoked.
C3_Witness ==
    /\ LastToOM
    /\ last.obj = VTest
    /\ last.tried = <<2>>
    /\ Applicable(conv_to_om, last.obj, 1)
    /\ IsRaise(last.result, "RuntimeError")
    /\ ~last.hook

\* C4: to_openmath never fails with CannotConvertError.
C4_CannotConvertNeverEscapes ==
    LastToOM => ~IsRaise(last.result, "CannotConvertError")

\* C5: when the rule that decides to_openmath(v) is a constant OpenMath
\* node n, the result is n.
C5_ConstantRule ==
    (LastToOM /\ last.tried # <<>> /\ ~last.hook) =>
        LET conv == conv_to_om[last.tried[Len(last.tried)]].conv
        IN  IsOMAny(conv) => last.result = Return(conv)

LastToPy == last.op = "to_python"
LastSymbol ==
    /\ LastToPy
    /\ last.omobj.cls = "OMSymbol"
    /\ "OMSymbol" \notin DOMAIN omclass_to_py

\* the keys of the four levels for a symbol, most specific first
LevelKeys(sym) ==
    << <<sym.cdbase, sym.cd, sym.name>>, <<sym.cdbase, sym.cd, None>>,
       <<sym.cdbase, None, None>>, <<None, None, None>> >>
\* the first level of the symbol that holds an entry, 0 if none does
FirstLevel(sym) ==
    LET held == {l \in 1..4 : LevelKeys(sym)[l] \in DOMAIN oms_to_py}
    IN  IF held = {} THEN 0 ELSE CHOOSE l \in held : \A m \in held : l <= m

\* C7: a node whose class has a class override is converted by the
\* override applied to the node; no symbol rule is looked up and no
\* application is evaluated.
C7_ClassOverrideFirst ==
    (LastToPy /\ last.omobj.cls \in DOMAIN omclass_to_py) =>
        /\ last.result = Return(PyApply(omclass_to_py[last.omobj.cls], <<last.omobj>>))
        /\ last.calls = <<[cls |-> last.omobj.cls, args |-> <<last.omobj>>]>>

\* C7 witness: an OMSymbol with an exact symbol rule and a class override
\* for OMSymbol was converted.
C7_Witness ==
    /\ LastToPy
    /\ last.omobj.cls = "OMSymbol"
    /\ "OMSymbol" \in DOMAIN omclass_to_py
    /\ <<last.omobj.cdbase, last.omobj.cd, last.omobj.name>> \in DOMAIN oms_to_py

\* C8: a symbol is converted by the entry of the most specific level that
\* holds one: exact, then (cdbase, cd), then cdbase, then the wildcard.
C8_MostSpecificFirst ==
    (LastSymbol /\ FirstLevel(last.omobj) # 0) =>
        LET key == LevelKeys(last.omobj)[FirstLevel(last.omobj)]
        IN  /\ Len(last.calls) = 1
            /\ last.calls[1].key = key
            /\ last.result = CallEntry(oms_to_py[key], last.calls[1].args)

\* C8 witness: a symbol with an exact entry and a (cdbase, cd) entry was
\* converted to the object of the exact entry.
C8_Witness ==
    /\ LastSymbol
    /\ LevelKeys(last.omobj)[1] \in DOMAIN oms_to_py
    /\ LevelKeys(last.omobj)[2] \in DOMAIN oms_to_py
    /\ last.result = Return(oms_to_py[LevelKeys(last.omobj)[1]].py)

Wildcard == <<None, None, None>>

\* The arguments the entry found under key is to receive for sym.  The key
\* (None, None, None) holds the wildcard fallback, a function of cdbase, cd
\* and name; a function of cd and name stored there is a cdbase-only rule
\* for symbols without cdbase, and the fallback for the others.
LevelArgs(key, sym) ==
    CASE key[3] # None -> <<>>
      [] key[3] = None /\ key[2] # None -> <<sym.name>>
      [] key[2] = None /\ key[1] # None -> <<sym.cd, sym.name>>
      [] OTHER ->
            IF Arity(oms_to_py[Wildcard].fn) = 2 /\ sym.cdbase = None
            THEN <<sym.cd, sym.name>>
            ELSE <<sym.cdbase, sym.cd, sym.name>>

\* C9: the entry found for a symbol, with or without cdbase, is called with
\* the arguments of its level: none for an exact entry, the name for a
\* (cdbase, cd) entry, cd and name for a cdbase-only entry, and cdbase, cd
\* and name for the fully-wildcard fallback.
C9_LevelArguments ==
    (LastSymbol /\ last.calls # <<>>) =>
        last.calls[1].args = LevelArgs(last.calls[1].key, last.omobj)

\* C10: to_python of an OMSymbol with no class override and no entry at
\* any of the four levels fails with ValueError.
C10_NoEntryIsValueError ==
    (LastSymbol /\ FirstLevel(last.omobj) = 0) =>
        last.result = Raise("ValueError")

LastApplication ==
    /\ LastToPy
    /\ last.omobj.cls = "OMApplication"
    /\ "OMApplication" \notin DOMAIN omclass_to_py

\* C11: to_python of an OMApplication without class override converts the
\* head and every argument recursively and returns the converted head
\* called with the converted arguments, in their original order and number;
\* an error in converting the head or an argument is the error of the call.
C11_ApplyHeadToArguments ==
    LastApplication =>
        LET head == to_python(omclass_to_py, oms_to_py, last.omobj.elem).result
            n == Len(last.omobj.arguments)
            args == [k \in 1..n |->
                        to_python(omclass_to_py, oms_to_py, last.omobj.arguments[k]).result]
            errors == {r \in {head} \cup {args[k] : k \in 1..n} : ~IsReturn(r)}
        IN  IF errors # {} THEN last.result \in errors
            ELSE last.result = CallNative(head.val, [k \in 1..n |-> args[k].val])

\* C11 witness: the list function applied to two nodes that convert to
\* different values returned the list of the two values, in order.
C11_Witness ==
    /\ LastApplication
    /\ Len(last.omobj.arguments) = 2
    /\ IsReturn(last.result)
    /\ LET a == to_python(omclass_to_py, oms_to_py, last.omobj.arguments[1]).result
           b == to_python(omclass_to_py, oms_to_py, last.omobj.arguments[2]).result
       IN  /\ IsReturn(a) /\ IsReturn(b) /\ a # b
           /\ last.result = Return(PyList(<<a.val, b.val>>))

\* C12: to_python of a node without class override that is neither an
\* OMSymbol nor an OMApplication fails with ValueError.
C12_NoConversion ==
    (LastToPy /\ last.omobj.cls \notin DOMAIN omclass_to_py
              /\ last.omobj.cls \notin {"OMSymbol", "OMApplication"}) =>
        /\ last.result = Raise("ValueError")
        /\ last.calls = <<>>

\* C12 witness: an OMObject whose child is a symbol with an entry failed
\* with ValueError.
C12_Witness ==
    /\ LastToPy
    /\ last.omobj = ObjNode
    /\ FirstLevel(last.omobj.omel) # 0
    /\ "OMSymbol" \notin DOMAIN omclass_to_py
    /\ last.result = Raise("ValueError")

\* the guard is neither None nor a class
BadGuard(py_class) == py_class # None /\ ~isclass(py_class)
\* the converter is neither callable nor an OpenMath object
BadConverter(converter) == ~callable(converter) /\ ~IsOMAny(converter)

\* C16: register_to_openmath with a guard that is neither None nor a class,
\* or with a converter that is neither callable nor an OpenMath node, fails
\* with TypeError at the call and leaves _conv_to_om as it was, so every
\* later to_openmath gives what it gave before; any other registration
\* appends the rule.
C16_FailedRegistrationKeepsRules ==
    [][last'.op = "register_to_openmath" =>
          IF BadGuard(last'.py_class) \/ BadConverter(last'.converter)
          THEN /\ last'.result = Raise("TypeError")
               /\ conv_to_om' = conv_to_om
               /\ \A v \in Values :
                      to_openmath(conv_to_om', v) = to_openmath(conv_to_om, v)
          ELSE \/ /\ last'.result = Return(None)
                  /\ conv_to_om' = Append(conv_to_om,
                         [cl |-> last'.py_class, conv |-> last'.converter])
               \/ UNCHANGED vars]_vars

\* C16 witness: with one rule registered, a registration of the number 5
\* as converter under a valid guard failed with TypeError.
C16_Witness ==
    /\ last.op = "register_to_openmath"
    /\ last.converter = NotAConverter
    /\ ~BadGuard(last.py_class)
    /\ last.result = Raise("TypeError")
    /\ Len(conv_to_om) = 1

\* ====================================== properties, default converter
\* the items of range(start, stop, step), step >= 1
RangeItems(r) ==
    LET start == r.items[1]  stop == r.items[2]  step == r.items[3]
        n == IF stop <= start THEN 0 ELSE (stop - start + step - 1) \div step
    IN  [k \in 1..n |-> start + (k - 1) * step]

\* a == b in Python: NaN differs from itself, True equals 1, sets compare
\* without order, ranges by their items
RECURSIVE PyEq(_, _)
PyEq(a, b) ==
    CASE a.cls \in {"int", "bool"} /\ b.cls \in {"int", "bool"} ->
            int(a).val = int(b).val
      [] a.cls # b.cls -> FALSE
      [] a.cls = "float" -> a.repr = b.repr /\ a.repr # "nan"
      [] a.cls = "complex" -> a.items = b.items /\ "nan" \notin Range(a.items)
      [] a.cls = "list" ->
            /\ Len(a.items) = Len(b.items)
            /\ \A k \in 1..Len(a.items) : PyEq(a.items[k], b.items[k])
      [] a.cls = "set" ->
            /\ \A k \in 1..Len(a.items) :
                  \E j \in 1..Len(b.items) : PyEq(a.items[k], b.items[j])
            /\ \A j \in 1..Len(b.items) :
                  \E k \in 1..Len(a.items) : PyEq(a.items[k], b.items[j])
      [] a.cls = "range" -> RangeItems(a) = RangeItems(b)
      [] OTHER -> a = b

\* v is a boolean, an integer, a float, a complex number, a string, a
\* unit-step range, or a list or set of such values
RECURSIVE Convertible(_)
Convertible(v) ==
    CASE v.cls \in {"bool", "int", "float", "complex", "str"} -> TRUE
      [] v.cls \in {"list", "set"} ->
            \A k \in 1..Len(v.items) : Convertible(v.items[k])
      [] v.cls = "range" -> v.items[3] = 1
      [] OTHER -> FALSE

\* v is NaN or a complex number with a NaN part
IsNaN(v) ==
    \/ v.cls = "float" /\ v.repr = "nan"
    \/ v.cls = "complex" /\ "nan" \in Range(v.items)

\* the last call is to_python(to_openmath(v)) and gave a value of the type
\* of v that equals v
RoundTripOf(v) ==
    /\ last.op = "to_python"
    /\ last.of = v
    /\ IsReturn(last.result)
    /\ last.result.val.cls = v.cls
    /\ PyEq(last.result.val, v)

\* C13 as stated: for every boolean, integer, float, complex number,
\* string, list, set and unit-step range v, to_openmath(v) gives a node and
\* to_python of it has the type of v and equals v.
C13_Identity ==
    /\ (LastToOM /\ Convertible(last.obj)) => IsReturn(last.result)
    /\ (last.op = "to_python" /\ Convertible(last.of)) => RoundTripOf(last.of)

\* C13, amended: the same for every such v that is not NaN and not a
\* complex number with a NaN part.
C13_IdentityButNaN ==
    /\ (LastToOM /\ Convertible(last.obj)) => IsReturn(last.result)
    /\ (last.op = "to_python" /\ Convertible(last.of) /\ ~IsNaN(last.of)) =>
            RoundTripOf(last.of)

\* C13 witness: the set {True, 2} came back from its OpenMath form.
C13_Witness ==
    /\ RoundTripOf(PySet(<<PyBool("True"), PyInt(2)>>))
    /\ last.omobj.cls = "OMApplication"
    /\ Len(last.omobj.arguments) = 2

\* the index in _conv_to_om of the rule registered for class cl
RuleFor(cl) == CHOOSE i \in 1..Len(conv_to_om) : conv_to_om[i].cl = cl

\* C14: on the default converter to_openmath(True) is the symbol true of
\* logic1 and to_openmath(False) the symbol false of logic1, with the
\* standard cdbase, and not an OMInteger: the rule for bool is tried and
\* decides before the rule for int is reached.
C14_BoolBeforeInt ==
    (LastToOM /\ last.obj.cls = "bool") =>
        /\ last.obj = PyBool("True") =>
               last.result = Return(OMSymbol("true", "logic1", None,
                                             "http://www.openmath.org/cd"))
        /\ last.obj = PyBool("False") =>
               last.result = Return(OMSymbol("false", "logic1", None,
                                             "http://www.openmath.org/cd"))
        /\ last.tried = <<RuleFor("bool")>>
        /\ RuleFor("int") \notin Range(last.tried)

\* C14 witness: True was converted to the symbol true while a rule for int,
\* which applies to True, is registered.
C14_Witness ==
    /\ LastToOM
    /\ last.obj = PyBool("True")
    /\ Applicable(conv_to_om, last.obj, RuleFor("int"))
    /\ IsReturn(last.result)
    /\ last.result.val.cls = "OMSymbol"
    /\ last.result.val.name = "true"

\* C15: on the default converter to_openmath of a range whose step is not
\* 1 fails with ValueError, and to_openmath of range(a, b) is the symbol
\* integer_interval of interval1 applied to OMInteger(a) and OMInteger(b-1).
C15_Range ==
    (LastToOM /\ last.obj.cls = "range") =>
        LET a == last.obj.items[1]
            b == last.obj.items[2]
            step == last.obj.items[3]
        IN  IF step # 1 THEN last.result = Raise("ValueError")
            ELSE last.result =
                    Return(OMApplication(
                        OMSymbol("integer_interval", "interval1", None,
                                 "http://www.openmath.org/cd"),
                        <<OMInteger(a, None), OMInteger(b - 1, None)>>, None, None))

\* ================================================ properties, XML codec
LastEncode == last.op = "encode_xml"

\* C17: for every node x of the 15 variants, with or without id and
\* cdbase, encode_xml(x) gives an element and decode_xml of it equals x.
C17_DecodeEncode ==
    /\ (LastEncode /\ last.obj.cls \in Variants) => IsReturn(last.result)
    /\ (last.op = "decode_xml" /\ "of" \in DOMAIN last) => last.result = Return(last.of)

\* text.strip() if text is not None else ''
Stripped(text) == IF text = None THEN "" ELSE text

\* tests.utils.elements_equal(e1, e2)
RECURSIVE elements_equal(_, _)
elements_equal(e1, e2) ==
    /\ e1.tag = e2.tag
    /\ Stripped(e1.text) = Stripped(e2.text)
    /\ e1.attrib = e2.attrib
    /\ Len(e1.children) = Len(e2.children)
    /\ \A k \in 1..Len(e1.children) : elements_equal(e1.children[k], e2.children[k])

\* C18: for every node x of the 15 variants, encode_xml(x) gives an
\* element, and encoding what it decodes to gives an element with the same
\* tag, attributes, text and children at every level.
C18_ReEncodeStable ==
    /\ (LastEncode /\ last.obj.cls \in Variants) => IsReturn(last.result)
    /\ (last.op = "decode_xml" /\ "of" \in DOMAIN last) => IsReturn(last.result)
    /\ last.op = "re_encode_xml" =>
            /\ IsReturn(last.result)
            /\ elements_equal(last.result.val, last.first)

\* the attribute named a of an element is there exactly when the field is
\* not None, and holds the field
EmitsWhenSet(elem, a, field) ==
    IF field = None THEN a \notin DOMAIN elem.attrib
    ELSE a \in DOMAIN elem.attrib /\ elem.attrib[a] = field

\* C19: the element encode_xml returns for a node of the 15 variants has
\* the attribute id exactly when the node's id is not None, and, for the
\* variants with a cdbase, the attribute cdbase exactly when the node's
\* cdbase is not None, each with the value of the field.
C19_IdAndCdbaseAttributes ==
    (LastEncode /\ last.obj.cls \in Variants /\ IsReturn(last.result)) =>
        /\ EmitsWhenSet(last.result.val, "id", last.obj.id)
        /\ last.obj.cls \in CDBaseClasses =>
               EmitsWhenSet(last.result.val, "cdbase", last.obj.cdbase)

\* the tag of a class
TagOf(cls) == CHOOSE t \in DOMAIN omtags : omtags[t] = cls

\* C20: encode_xml returns an element with the tag of its class for every
\* node of the 15 variants, and fails with TypeError, and nothing else,
\* for every other object.
C20_EncodeTotal ==
    LastEncode =>
        IF last.obj.cls \in Variants
        THEN /\ IsReturn(last.result)
             /\ last.result.val.tag = _om(TagOf(last.obj.cls))
        ELSE last.result = Raise("TypeError")

\* a call of decode_xml on an element of a document, one of decode_stream
LastDecodeElement == last.op = "decode_xml" /\ "of" \notin DOMAIN last
LastDecodeStream == last.op = "decode_stream"

\* C21: decode_stream and decode_bytes return a tree only for a root that
\* is an OMOBJ element with the version "2.0"; for any other root (another
\* tag, no version, another version) they fail.
C21_RootIsOMOBJ20 ==
    (LastDecodeStream /\ IsReturn(last.result)) =>
        /\ last.elem.tag = _om("OMOBJ")
        /\ Get(last.elem, "version") = "2.0"

\* the tag is one of the 15 registered ones
KnownTag(tag) == tag.ns = openmath_ns /\ tag.local \in DOMAIN omtags
RECURSIVE AnyUnknownTag(_)
AnyUnknownTag(elem) ==
    \/ ~KnownTag(elem.tag)
    \/ \E k \in DOMAIN elem.children : AnyUnknownTag(elem.children[k])

\* C22: decode_xml of a document with an element, at the root or at any
\* depth, whose tag is not registered fails, with one kind of error (the
\* KeyError of the tag table), and returns no tree.
C22_UnknownTagFails ==
    (LastDecodeElement /\ AnyUnknownTag(last.elem)) => last.result = Raise("KeyError")

\* the versions of the OMObject nodes of a tree, through the children of
\* OMObject and OMApplication
RECURSIVE VersionsIn(_)
VersionsIn(node) ==
    CASE node.cls = "OMObject" -> {node.version} \cup VersionsIn(node.omel)
      [] node.cls = "OMApplication" ->
            VersionsIn(node.elem)
            \cup UNION {VersionsIn(node.arguments[k]) : k \in DOMAIN node.arguments}
      [] OTHER -> {}

\* C23: an OMObject built without a version has the version "2.0", and
\* every OMObject of a tree that decode_xml or decode_stream returns has
\* the version "2.0": an OMOBJ with another version is an error.
C23_VersionIs20 ==
    /\ OMObject(IntNode, None, None, None).version = "2.0"
    /\ ((LastDecodeElement \/ LastDecodeStream) /\ IsReturn(last.result)) =>
            VersionsIn(last.result.val) \subseteq {"2.0"}

\* an OMBVAR element whose children are variables or attributed variables
LastDecodeBvar ==
    /\ LastDecodeElement
    /\ last.elem.tag = _om("OMBVAR")
    /\ \A k \in DOMAIN last.elem.children :
          last.elem.children[k].tag \in {_om("OMV"), _om("OMATTR")}

\* C26: the children of an OMBVAR decode in order: an OMV to the
\* OMVariable of its name, an OMATTR to an OMAttVar; an OMATTR that is
\* decoded outside an OMBVAR gives an OMAttribution.
C26_AttVarInsideBvar ==
    /\ LastDecodeBvar =>
          /\ IsReturn(last.result)
          /\ last.result.val.cls = "OMBindVariables"
          /\ Len(last.result.val.vars) = Len(last.elem.children)
          /\ \A k \in DOMAIN last.elem.children :
                LET child == last.elem.children[k]
                    var == last.result.val.vars[k]
                IN  IF child.tag = _om("OMV")
                    THEN var = OMVariable(Get(child, "name"), Get(child, "id"))
                    ELSE var.cls = "OMAttVar"
    /\ (LastDecodeElement /\ last.elem.tag = _om("OMATTR") /\ IsReturn(last.result)) =>
          last.result.val.cls = "OMAttribution"

\* C27: object_to_tag(v) returns, for each of the 15 classes v, a tag t
\* with tag_to_object(t) = v, and object_to_tag(tag_to_object(t)) = t for
\* each registered tag t.
C27_TagBijection ==
    /\ last.op = "object_to_tag" =>
          /\ IsReturn(last.result)
          /\ tag_to_object(last.result.val) = Return(last.obj)
    /\ (last.op = "tag_to_object" /\ IsReturn(last.result)) =>
          object_to_tag(last.result.val) = Return(last.tag)

\* C24: a node keeps the field values it was constructed with: neither the
\* caller, by changing the list it passed or the list a property returned,
\* nor the library changes them.
C24_NodesImmutable ==
    last.op \in {"modify_given", "modify_returned", "finalize"} =>
        heap.node = last.before

\* the dict after is the dict before with key set to handler, and nothing
\* else changed
SetIn(before, after, key, handler) ==
    /\ DOMAIN after = DOMAIN before \cup {key}
    /\ after[key] = handler
    /\ \A k \in DOMAIN before \ {key} : after[k] = before[k]

SymbolRegistrations ==
    {"register_to_python_name", "register_to_python_cd", "register_to_python_cdbase"}

Registrations ==
    {"register_to_openmath", "register_to_python_class"} \cup SymbolRegistrations
OtherRegistrations ==
    {"other.register_to_openmath", "other.register_to_python_class",
     "other.register_to_python_name"}
\* what the converter with these registries answers for an integer and
\* for a node of each registry
Answers(rules, omclass, symtab) ==
    << to_openmath(rules, VInt), to_python(omclass, symtab, IntNode),
       to_python(omclass, symtab, OMSymbol("n", "c", None, "b")) >>

\* C25: a registration on one Converter leaves the registries of the
\* other Converter, and so what it answers, unchanged; a registration in
\* one registry leaves the two other registries of that Converter
\* unchanged.
C25_PerInstancePerRegistry ==
    [][/\ last'.op \in Registrations =>
             /\ other' = other
             /\ Answers(other'.conv_to_om, other'.omclass_to_py, other'.oms_to_py)
                  = Answers(other.conv_to_om, other.omclass_to_py, other.oms_to_py)
       /\ last'.op \in OtherRegistrations =>
             /\ UNCHANGED <<conv_to_om, omclass_to_py, oms_to_py>>
             /\ Answers(conv_to_om', omclass_to_py', oms_to_py')
                  = Answers(conv_to_om, omclass_to_py, oms_to_py)
       /\ last'.op = "register_to_openmath" => UNCHANGED <<omclass_to_py, oms_to_py>>
       /\ last'.op = "register_to_python_class" => UNCHANGED <<conv_to_om, oms_to_py>>
       /\ last'.op \in SymbolRegistrations => UNCHANGED <<conv_to_om, omclass_to_py>>
       /\ last'.op = "other.register_to_openmath" =>
             /\ other'.omclass_to_py = other.omclass_to_py
             /\ other'.oms_to_py = other.oms_to_py
       /\ last'.op = "other.register_to_python_class" =>
             /\ other'.conv_to_om = other.conv_to_om
             /\ other'.oms_to_py = other.oms_to_py
       /\ last'.op = "other.register_to_python_name" =>
             /\ other'.conv_to_om = other.conv_to_om
             /\ other'.omclass_to_py = other.omclass_to_py
      ]_vars

\* c has just registered a class override while the second converter
\* holds another one for the same class, and the two answer differently
C25_Witness ==
    /\ last.op = "register_to_python_class"
    /\ "OMInteger" \in DOMAIN other.omclass_to_py
    /\ omclass_to_py["OMInteger"] # other.omclass_to_py["OMInteger"]
    /\ other.conv_to_om # <<>>
    /\ conv_to_om # <<>>
    /\ Answers(conv_to_om, omclass_to_py, oms_to_py)
         # Answers(other.conv_to_om, other.omclass_to_py, other.oms_to_py)

\* C28: a to_openmath or to_python call, whether it returns or raises,
\* leaves the three registries as they were; a step that changes one of
\* them is a register_* call.
C28_ConversionsReadOnly ==
    [][/\ last'.op \in {"to_openmath", "to_python"} =>
             UNCHANGED <<conv_to_om, omclass_to_py, oms_to_py>>
       /\ <<conv_to_om, omclass_to_py, oms_to_py>>' # <<conv_to_om, omclass_to_py, oms_to_py>>
             => last'.op \in Registrations
      ]_vars

\* a conversion that raised and one that returned, each with rules of
\* all three registries in place
C28_Witness ==
    /\ last.op \in {"to_openmath", "to_python"}
    /\ Len(conv_to_om) = MaxRules
    /\ omclass_to_py # EmptyDict
    /\ oms_to_py # EmptyDict
    /\ ~IsReturn(last.result)

\* C30: on the default converter to_python of the symbol emptyset of set1
\* returns a set without elements, whatever callers did with the sets
\* earlier calls returned.
C30_EmptySetIsEmpty ==
    (last.op = "to_python" /\ last.omobj = oms("emptyset", "set1")) =>
        last.result = Return(PySet(<<>>))

====
